---------------------------- MODULE Spec2Model ----------------------------
(***************************************************************************)
(* A model of ChaiScript's bootstrap layer                                 *)
(* (include/chaiscript/dispatchkit/bootstrap.hpp): the assignment and      *)
(* compound-assignment helpers over Boxed_Numeric, the registration        *)
(* sequence of Bootstrap::bootstrap, the helpers bind_function,            *)
(* call_exists, has_guard, get_guard, ptr_assign and unknown_assign, and   *)
(* the clone script of Dynamic_Object.  The dispatch engine, Module::add,  *)
(* Bound_Function, Boxed_Value::assign and Dynamic_Object live in headers  *)
(* that bootstrap.hpp only includes; they are modelled from the            *)
(* specification.                                                          *)
(***************************************************************************)
EXTENDS Integers, Sequences, FiniteSets, TLC

VARIABLES
    num,        \* one call of a detail::*_pod helper: target, operand, outcome
    pc,         \* whether bootstrap(m) has run, and how many adds the host made
    registry,   \* Module: function name -> sequence of candidates
    objs,       \* the function objects, by handle; Bound ones join at run time
    last,       \* the last operation on the registry / a callable
    cells,      \* Boxed_Value data blocks that "=" helpers assign to
    asg,        \* the last assignment helper call / Dynamic_Object operation
    dyn         \* the Dynamic_Objects: type name, attribute name -> data block

vars == <<num, pc, registry, objs, last, cells, asg, dyn>>

(***************************************************************************)
(* Part 1.  Boxed_Numeric and the detail::*_pod helpers.                   *)
(***************************************************************************)

\* The integer POD types of bootstrap_integer_type<T> (lines 690-693).
IntegerTypes == {"int", "size_t", "char", "int64_t"}

\* The floating type of bootstrap_float_type<T> (line 689).
FloatTypes == {"double"}

\* Width in bits of T, and of T after the integral promotion that the
\* built-in operators apply to their left operand (char promotes to int).
Bits(T) == CASE T = "char" -> 8 [] T = "int" -> 32 [] OTHER -> 64

PromotedBits(T) == IF T = "char" THEN 32 ELSE Bits(T)

IsSigned(T) == T # "size_t"

\* Values are mathematical integers.  A size_t value v >= 2^63 is held as its
\* two's-complement image v - 2^64 (so 2^64 - 1 is held as -1): the bit
\* pattern is the same and the model checker's integers end at 2^31 - 1.
RECURSIVE Pow2(_)
Pow2(n) == IF n = 0 THEN 1 ELSE 2 * Pow2(n - 1)

\* P1(x) for an integer x: the conversion of a 64-bit integer to T.  Only
\* char is narrower than the integers of the model; it wraps modulo 2^8.
ConvInt(T, x) ==
    IF T = "char"
    THEN ((x + Pow2(Bits(T) - 1)) % Pow2(Bits(T))) - Pow2(Bits(T) - 1)
    ELSE x

\* Bitwise operators on two's-complement integers of unbounded width.
RECURSIVE BitAnd(_, _)
BitAnd(a, b) ==
    IF a = 0 \/ b = 0 THEN 0
    ELSE IF a = -1 THEN b
    ELSE IF b = -1 THEN a
    ELSE (a % 2) * (b % 2) + 2 * BitAnd(a \div 2, b \div 2)

RECURSIVE BitOr(_, _)
BitOr(a, b) ==
    IF a = 0 THEN b
    ELSE IF b = 0 THEN a
    ELSE IF a = -1 \/ b = -1 THEN -1
    ELSE (IF a % 2 = 1 \/ b % 2 = 1 THEN 1 ELSE 0) + 2 * BitOr(a \div 2, b \div 2)

RECURSIVE BitXor(_, _)
BitXor(a, b) ==
    IF a = 0 THEN b
    ELSE IF b = 0 THEN a
    ELSE IF a = -1 THEN (-b) - 1
    ELSE IF b = -1 THEN (-a) - 1
    ELSE (((a % 2) + (b % 2)) % 2) + 2 * BitXor(a \div 2, b \div 2)

Abs(x) == IF x < 0 THEN -x ELSE x

\* a % b of C++ for b # 0: the quotient truncates toward zero.  For size_t
\* an image below zero is a value of at least 2^63.
CRem(T, a, b) ==
    IF IsSigned(T)
    THEN (IF a < 0 THEN -1 ELSE 1) * (Abs(a) % Abs(b))
    ELSE IF b < 0 THEN a ELSE a % b

\* Sample targets and operands.  130 is outside char and is a shift count
\* beyond every width; 9 is a shift count that is in range.
\* A double target is held as a fraction p1 / unit; the samples are halves.
PodInputs(T) ==
    IF T \in FloatTypes THEN {-3, 0, 1, 4}
    ELSE IF IsSigned(T) THEN {-2, 0, 1, 6} ELSE {0, 1, 6}

Unit(T) == IF T \in FloatTypes THEN 2 ELSE 1

IntOperands == {-1, 0, 1, 3, 9, 130}

\* Doubles are held in halves: d = 3 stands for 1.5.
FloatOperands == {-3, 0, 2, 3, 5}

\* Boxed_Numeric {isfloat, i, d}: one of i and d is active.
Numerics ==
    {[isfloat |-> FALSE, i |-> x, d |-> 0] : x \in IntOperands}
    \cup {[isfloat |-> TRUE, i |-> 0, d |-> y] : y \in FloatOperands}

\* What a helper call can end in.
Returned(v) ==
    [status |-> "returned", p1 |-> v, unit |-> 1, type |-> "", op |-> "", text |-> ""]

\* throw exception::bad_boxed_cast("<op> only valid for integer types")
Thrown(p1, op) ==
    [status |-> "thrown", p1 |-> p1, unit |-> 1, type |-> "bad_boxed_cast",
     op |-> op, text |-> "only valid for integer types"]

\* Undefined behaviour of the built-in operator: any value of the target.
Undefined(T) ==
    {[status |-> "undefined", p1 |-> v, unit |-> Unit(T), type |-> "", op |-> "",
      text |-> ""] : v \in PodInputs(T)}

\* Each helper gives the set of outcomes of op(p1, r) for target type T.

assign_bitwise_and_pod(T, p1, r) ==
    IF ~r.isfloat
    THEN {Returned(ConvInt(T, BitAnd(p1, ConvInt(T, r.i))))}
    ELSE {Thrown(p1, "&=")}

assign_xor_pod(T, p1, r) ==
    IF ~r.isfloat
    THEN {Returned(ConvInt(T, BitXor(p1, ConvInt(T, r.i))))}
    ELSE {Thrown(p1, "^=")}

\* Line 97 throws with the text of assign_bitwise_and_pod.
assign_bitwise_or_pod(T, p1, r) ==
    IF ~r.isfloat
    THEN {Returned(ConvInt(T, BitOr(p1, ConvInt(T, r.i))))}
    ELSE {Thrown(p1, "&=")}

\* A shift count: for size_t a negative image is a count of at least 2^63.
BadShiftCount(T, c) == c < 0 \/ c >= PromotedBits(T)

assign_left_shift_pod(T, p1, r) ==
    IF ~r.isfloat
    THEN LET c == ConvInt(T, r.i)
         IN  IF BadShiftCount(T, c) \/ (IsSigned(T) /\ p1 < 0)
             THEN Undefined(T)
             ELSE {Returned(ConvInt(T, p1 * Pow2(c)))}
    ELSE {Thrown(p1, "<<=")}

\* assign_remainder_pod as it would be if it truncated a floating operand
\* the way the arithmetic helpers do (p1 %= P1(r.d)).
assign_remainder_pod_truncating(T, p1, r) ==
    LET d == IF r.isfloat
             THEN (IF r.d < 0 THEN -1 ELSE 1) * (Abs(r.d) \div 2)
             ELSE ConvInt(T, r.i)
    IN  IF d = 0 THEN Undefined(T) ELSE {Returned(ConvInt(T, CRem(T, p1, d)))}

assign_remainder_pod(T, p1, r) ==
    IF ~r.isfloat
    THEN LET d == ConvInt(T, r.i)
         IN  IF d = 0 THEN Undefined(T)
             ELSE {Returned(ConvInt(T, CRem(T, p1, d)))}
    ELSE {Thrown(p1, "%=")}

assign_right_shift_pod(T, p1, r) ==
    IF ~r.isfloat
    THEN LET c == ConvInt(T, r.i)
         IN  IF BadShiftCount(T, c)
             THEN Undefined(T)
             ELSE {Returned(p1 \div Pow2(c))}
    ELSE {Thrown(p1, ">>=")}

\* A double is held exactly, as the fraction p1 / unit in lowest terms.
\* unit = 0 stands for what IEEE division by zero gives: an infinity
\* (p1 = 1 or -1) or a NaN (p1 = 0).  Rounding is not modelled: the samples
\* and their sums, products and quotients are well inside the precision of
\* a double, except that a quotient such as 0.5 / 1.5 stands for the double
\* nearest to it.
RECURSIVE GCD(_, _)
GCD(a, b) == IF b = 0 THEN a ELSE GCD(b, a % b)

Sign(x) == IF x < 0 THEN -1 ELSE IF x = 0 THEN 0 ELSE 1

Fraction(n, u) ==
    IF u = 0
    THEN [Returned(Sign(n)) EXCEPT !.unit = 0]
    ELSE [Returned((Sign(u) * n) \div GCD(Abs(n), Abs(u)))
             EXCEPT !.unit = Abs(u) \div GCD(Abs(n), Abs(u))]

\* Whether T can hold the integer x.  int and int64_t hold every integer of
\* the model.
InRange(T, x) ==
    CASE T = "char" -> x >= -Pow2(Bits(T) - 1) /\ x < Pow2(Bits(T) - 1)
      [] T = "size_t" -> x >= 0
      [] OTHER -> TRUE

\* A double d (in halves) with its fractional part discarded.
Trunc(d) == Sign(d) * (Abs(d) \div 2)

\* P1(v.d): a double target takes d as it is; an integer target takes it
\* truncated toward zero, and the conversion is undefined when T cannot hold
\* the truncated value.
FromDouble(T, d) ==
    IF T \in FloatTypes THEN {Fraction(d, 2)}
    ELSE IF InRange(T, Trunc(d)) THEN {Returned(Trunc(d))}
    ELSE Undefined(T)

\* P1(v.i): the conversion of the 64-bit integer i to T.
FromInt(T, i) ==
    IF T \in FloatTypes THEN {Fraction(i, 1)} ELSE {Returned(ConvInt(T, i))}

\* assign_pod as it would be if it read the integer field whatever isfloat
\* says.
assign_pod_from_integer_field(T, p1, v) == FromInt(T, v.i)

assign_pod(T, p1, v) ==
    IF v.isfloat THEN FromDouble(T, v.d) ELSE FromInt(T, v.i)

\* a / b of C++ for integers, b # 0: the quotient truncates toward zero.
\* For size_t a divisor image below zero is a value of at least 2^63, above
\* every target of the model.
CQuot(T, a, b) ==
    IF IsSigned(T)
    THEN Sign(a) * Sign(b) * (Abs(a) \div Abs(b))
    ELSE IF b < 0 THEN (IF a < 0 /\ a >= b THEN 1 ELSE 0) ELSE a \div b

\* The built-in p1 op= c for a converted operand c = P1(...).  An integer
\* target computes in the promoted type and converts back to T; dividing an
\* integer by zero is undefined.  A double target p1 (in units of 1/Unit(T))
\* computes exactly.
Compound(T, p1, c, op) ==
    IF c.status = "undefined" THEN Undefined(T)
    ELSE IF T \in FloatTypes
    THEN {CASE op = "+=" -> Fraction(p1 * c.unit + c.p1 * Unit(T), Unit(T) * c.unit)
            [] op = "-=" -> Fraction(p1 * c.unit - c.p1 * Unit(T), Unit(T) * c.unit)
            [] op = "*=" -> Fraction(p1 * c.p1, Unit(T) * c.unit)
            [] op = "/=" -> Fraction(p1 * c.unit, Unit(T) * c.p1)}
    ELSE CASE op = "+=" -> {Returned(ConvInt(T, p1 + c.p1))}
           [] op = "-=" -> {Returned(ConvInt(T, p1 - c.p1))}
           [] op = "*=" -> {Returned(ConvInt(T, p1 * c.p1))}
           [] op = "/=" -> IF c.p1 = 0 THEN Undefined(T)
                           ELSE {Returned(ConvInt(T, CQuot(T, p1, c.p1)))}

\* The outcomes of p1 op= P1(r.d) or p1 op= P1(r.i), per r.isfloat.
CompoundWith(T, p1, r, op) ==
    UNION {Compound(T, p1, c, op) :
              c \in IF r.isfloat THEN FromDouble(T, r.d) ELSE FromInt(T, r.i)}

assign_difference_pod(T, p1, r) == CompoundWith(T, p1, r, "-=")

assign_product_pod(T, p1, r) == CompoundWith(T, p1, r, "*=")

assign_quotient_pod(T, p1, r) == CompoundWith(T, p1, r, "/=")

assign_sum_pod(T, p1, r) == CompoundWith(T, p1, r, "+=")

\* oper_assign_pod<T> (line 351) and bootstrap_pod_type<T> (lines 368-371):
\* helper and the name it is added under.
ArithmeticAdds ==
    << <<"assign_pod", "=">>,
       <<"assign_sum_pod", "+=">>,
       <<"assign_difference_pod", "-=">>,
       <<"assign_product_pod", "*=">>,
       <<"assign_quotient_pod", "/=">> >>

ArithmeticOps == {"+=", "-=", "*=", "/="}

\* bootstrap_integer_type<T>, lines 387-392: helper and the name it is
\* added under, in order.
IntegerOnlyAdds ==
    << <<"assign_bitwise_and_pod", "&=">>,
       <<"assign_xor_pod", "^=">>,
       <<"assign_bitwise_or_pod", "|=">>,
       <<"assign_left_shift_pod", "<<=">>,
       <<"assign_remainder_pod", "%=">>,
       <<"assign_right_shift_pod", ">>=">> >>

IntegerOnlyOps == {IntegerOnlyAdds[k][2] : k \in DOMAIN IntegerOnlyAdds}

RegisteredUnder(helper) ==
    LET adds == IntegerOnlyAdds \o ArithmeticAdds
        k == CHOOSE j \in DOMAIN adds : adds[j][1] = helper
    IN  adds[k][2]

\* The state of Part 1: a target p1 of type T, then one call of a helper
\* through the name it is registered under.
NumIdle ==
    [phase |-> "idle", T |-> "int", pre |-> 0, p1 |-> 0, unit |-> 1, under |-> "",
     r |-> [isfloat |-> FALSE, i |-> 0, d |-> 0],
     status |-> "", type |-> "", op |-> "", text |-> ""]

NumReady(T, v) ==
    [NumIdle EXCEPT !.phase = "ready", !.T = T, !.pre = v, !.p1 = v, !.unit = Unit(T)]

NumCall(helper, r, out) ==
    /\ num.phase = "ready"
    /\ num' = [num EXCEPT !.phase = "called", !.under = RegisteredUnder(helper),
                          !.r = r, !.p1 = out.p1, !.unit = out.unit,
                          !.status = out.status,
                          !.type = out.type, !.op = out.op, !.text = out.text]
    /\ UNCHANGED <<pc, registry, objs, last, cells, asg, dyn>>

AssignBitwiseAnd ==
    /\ num.T \in IntegerTypes
    /\ \E r \in Numerics : \E out \in assign_bitwise_and_pod(num.T, num.p1, r) :
           NumCall("assign_bitwise_and_pod", r, out)

AssignXor ==
    /\ num.T \in IntegerTypes
    /\ \E r \in Numerics : \E out \in assign_xor_pod(num.T, num.p1, r) :
           NumCall("assign_xor_pod", r, out)

AssignBitwiseOr ==
    /\ num.T \in IntegerTypes
    /\ \E r \in Numerics : \E out \in assign_bitwise_or_pod(num.T, num.p1, r) :
           NumCall("assign_bitwise_or_pod", r, out)

AssignLeftShift ==
    /\ num.T \in IntegerTypes
    /\ \E r \in Numerics : \E out \in assign_left_shift_pod(num.T, num.p1, r) :
           NumCall("assign_left_shift_pod", r, out)

AssignRemainder ==
    /\ num.T \in IntegerTypes
    /\ \E r \in Numerics : \E out \in assign_remainder_pod(num.T, num.p1, r) :
           NumCall("assign_remainder_pod", r, out)

AssignRightShift ==
    /\ num.T \in IntegerTypes
    /\ \E r \in Numerics : \E out \in assign_right_shift_pod(num.T, num.p1, r) :
           NumCall("assign_right_shift_pod", r, out)

\* The helpers of bootstrap_pod_type<T>: every POD type has them.
AssignPod ==
    \E v \in Numerics : \E out \in assign_pod(num.T, num.p1, v) :
        NumCall("assign_pod", v, out)

AssignSum ==
    \E r \in Numerics : \E out \in assign_sum_pod(num.T, num.p1, r) :
        NumCall("assign_sum_pod", r, out)

AssignDifference ==
    \E r \in Numerics : \E out \in assign_difference_pod(num.T, num.p1, r) :
        NumCall("assign_difference_pod", r, out)

AssignProduct ==
    \E r \in Numerics : \E out \in assign_product_pod(num.T, num.p1, r) :
        NumCall("assign_product_pod", r, out)

AssignQuotient ==
    \E r \in Numerics : \E out \in assign_quotient_pod(num.T, num.p1, r) :
        NumCall("assign_quotient_pod", r, out)

RestIdleForNumeric ==
    /\ pc = [booted |-> FALSE, adds |-> 0]
    /\ registry = << >>
    /\ objs = << >>
    /\ last = << >>
    /\ cells = << >>
    /\ asg = << >>
    /\ dyn = << >>

InitNumeric ==
    /\ \E T \in IntegerTypes \cup FloatTypes : \E v \in PodInputs(T) :
           num = NumReady(T, v)
    /\ RestIdleForNumeric

NextNumeric ==
    \/ AssignBitwiseAnd
    \/ AssignXor
    \/ AssignBitwiseOr
    \/ AssignLeftShift
    \/ AssignRemainder
    \/ AssignRightShift
    \/ AssignPod
    \/ AssignSum
    \/ AssignDifference
    \/ AssignProduct
    \/ AssignQuotient

SpecNumeric == InitNumeric /\ [][NextNumeric]_vars

\* C1: an integer-only compound helper applied with a Boxed_Numeric whose
\* isfloat is true throws bad_boxed_cast and leaves the target p1 with the
\* value it had before the call.
C1_FloatOperandThrowsAndKeepsTarget ==
    (num.phase = "called" /\ num.under \in IntegerOnlyOps /\ num.r.isfloat)
        => /\ num.status = "thrown"
           /\ num.type = "bad_boxed_cast"
           /\ num.text = "only valid for integer types"
           /\ num.p1 = num.pre

\* A %= call with a floating operand whose truncation is neither zero nor
\* a divisor of the target has been made: a silent truncation would show.
C1_Witness ==
    /\ num.phase = "called"
    /\ num.under = "%="
    /\ num.r.isfloat
    /\ num.r.d = 5
    /\ num.pre = 1
    /\ num.status = "thrown"

\* C2: the message of the error raised through the name op begins with op.
C2_MessageNamesOperator ==
    (num.phase = "called" /\ num.status = "thrown") => num.op = num.under

\* The value a Boxed_Numeric carries, as a fraction: v.d (in halves) when
\* isfloat is true, v.i otherwise.
Active(v) == IF v.isfloat THEN v.d ELSE v.i

ActiveUnit(v) == IF v.isfloat THEN 2 ELSE 1

\* Reading p1 back gives a value numerically equal to the one v carries.  A
\* size_t image below zero is a value of at least 2^63, which no v.i equals.
ReadsBackEqual ==
    /\ num.status = "returned"
    /\ num.unit # 0
    /\ ~(num.T = "size_t" /\ num.p1 < 0)
    /\ num.p1 * ActiveUnit(num.r) = Active(num.r) * num.unit

\* Whether T can hold the value v carries.
Representable(T, v) ==
    \/ T \in FloatTypes
    \/ ~v.isfloat /\ InRange(T, v.i)
    \/ v.isfloat /\ v.d % 2 = 0 /\ InRange(T, v.d \div 2)

\* p1 is the value of T that has the low Bits(T) bits of x.
LowBitsOf(T, x, p1) ==
    IF T = "char"
    THEN InRange(T, p1) /\ (p1 - x) % Pow2(Bits(T)) = 0
    ELSE p1 = x

\* C11 as stated: for every registered POD numeric type T and every
\* Boxed_Numeric v, after assign_pod<T>(p1, v) reading p1 back yields a value
\* numerically equal to v.i (isfloat false) or v.d (isfloat true), also for
\* a v.i outside the range of a narrower T.
C11_AssignPodReadsBackEqual ==
    (num.phase = "called" /\ num.under = "=") => ReadsBackEqual

\* C11 as amended: after assign_pod<T>(p1, v), p1 reads back numerically
\* equal to the value v carries whenever T can hold that value; an integer T
\* takes a floating v.d truncated toward zero when it can hold the truncated
\* value, and takes of an integer v.i its low Bits(T) bits, which is another
\* value when v.i is outside the range of T.
C11_AssignPodReadsBackConverted ==
    (num.phase = "called" /\ num.under = "=") =>
        /\ Representable(num.T, num.r) => ReadsBackEqual
        /\ (num.T \in IntegerTypes /\ num.r.isfloat /\ InRange(num.T, Trunc(num.r.d)))
              => (num.status = "returned" /\ num.p1 = Trunc(num.r.d))
        /\ (num.T \in IntegerTypes /\ ~num.r.isfloat)
              => (num.status = "returned" /\ LowBitsOf(num.T, num.r.i, num.p1))
        /\ (num.T \in IntegerTypes /\ ~Representable(num.T, num.r)) => ~ReadsBackEqual

\* assign_pod<char> has been given v.i = 130, outside char, and the target
\* reads back -126.
C11_Witness ==
    /\ num.phase = "called"
    /\ num.under = "="
    /\ num.T = "char"
    /\ ~num.r.isfloat
    /\ num.r.i = 130
    /\ num.status = "returned"
    /\ num.p1 = -126

\* An arithmetic helper has combined an integer with a floating value: an
\* integer target with a floating operand, or a double target with an
\* integer operand.
MixedArithmetic ==
    /\ num.phase = "called"
    /\ num.under \in ArithmeticOps
    /\ (num.T \in IntegerTypes) = num.r.isfloat

\* pre op r carried out in double, both operands converted to double where
\* they are integers: a fraction p1 / unit.
InDouble ==
    CHOOSE f \in CompoundWith("double", num.pre * (2 \div Unit(num.T)), num.r, num.under) :
        TRUE

\* C12: whenever +=, -=, *= or /= combines an integer operand with a
\* floating operand, the integer operand is converted to double and the
\* operation is carried out in double; a floating r.d is never cast to the
\* integer type of the target p1 before the operation.  An integer target
\* then holds the double result converted to its type, a double target the
\* double result.
C12_MixedArithmeticIsCarriedOutInDouble ==
    (MixedArithmetic /\ InDouble.unit # 0) =>
        /\ num.status = "returned"
        /\ IF num.T \in IntegerTypes
           THEN num.p1 = Sign(InDouble.p1) * (Abs(InDouble.p1) \div InDouble.unit)
           ELSE num.p1 = InDouble.p1 /\ num.unit = InDouble.unit

(***************************************************************************)
(* Part 2.  Callables, the registry and dispatch.                          *)
(*                                                                         *)
(* bootstrap.hpp holds the registrations and the helpers bind_function,    *)
(* call_exists, has_guard and get_guard.  Proxy_Function_Base and its      *)
(* subclasses, Module::add and the dispatch loop are in dispatchkit.hpp    *)
(* and proxy_functions.hpp; what is said of them here follows sections 3,  *)
(* 4.3 and 4.5 of the specification.                                       *)
(***************************************************************************)

\* A Boxed_Value: the bare type of its payload, constness, and the payload
\* as an integer (for a Function: the handle of the function object).
V(type, v) == [type |-> type, const |-> FALSE, v |-> v]

IntV(n) == V("int", n)

BoolV(b) == V("bool", IF b THEN 1 ELSE 0)

FnV(h) == V("Function", h)

UndefV == V("undef", 0)

VoidV == V("void", 0)

\* The bind placeholder `_` of the script at line 649.
PlaceholderV == V("Placeholder", 0)

\* A function object.  guard and f are handles (0: none).
FnRec(kind, body, T, arity, ptypes, guard, f, args, contained) ==
    [kind |-> kind, body |-> body, T |-> T, arity |-> arity, ptypes |-> ptypes,
     guard |-> guard, f |-> f, args |-> args, contained |-> contained]

\* fun(&body<T>): a native function with a fixed signature.
Plain(body, T, ptypes) ==
    FnRec("Plain", body, T, Len(ptypes), ptypes, 0, 0, << >>, << >>)

\* constructor<T (ptypes)>()
Constructor(body, T, ptypes) ==
    FnRec("Constructor", body, T, Len(ptypes), ptypes, 0, 0, << >>, << >>)

\* new dispatch::Dynamic_Proxy_Function(body [, arity [, guard]]): the arity
\* defaults to -1 (variadic) and the guard to none.
Dynamic(body, arity, guard) ==
    FnRec("Dynamic", body, "", arity, << >>, guard, 0, << >>, << >>)

OverloadSet(contained) ==
    FnRec("OverloadSet", "", "", -1, << >>, 0, 0, << >>, contained)

\* Functions of the embedding host and of scripts, by handle 1..6:
\*   1 is_zero(int) -> bool          2 add2(int, int) -> int
\*   3 def g(x) : is_zero(x) {...}   4 a variadic script function, no guard
\*   5 the constructor Point(int)    6 the overload set [3, 1]
HostFns ==
    << Plain("is_zero", "", <<"int">>),
       Plain("add2", "", <<"int", "int">>),
       Dynamic("script_guarded", 1, 1),
       Dynamic("script_variadic", -1, 0),
       Constructor("constructor", "Point", <<"int">>),
       OverloadSet(<<3, 1>>) >>

\* The POD types of lines 689-693, in order, with their bootstrap helper.
PODTypes == <<"double", "int", "size_t", "char", "int64_t">>

NumericPOD == {PODTypes[k] : k \in DOMAIN PODTypes}

\* "to_" + name (line 374)
ParseName(name) ==
    CASE name = "double" -> "to_double"
      [] name = "int" -> "to_int"
      [] name = "size_t" -> "to_size_t"
      [] name = "char" -> "to_char"
      [] name = "int64_t" -> "to_int64_t"

\* The function objects bootstrap_pod_type<T> creates (lines 362-374) ...
PodTypeFns(T) ==
    << Constructor("constructor_default", T, << >>),
       Constructor("constructor_copy", T, <<T>>),
       Plain("assign", T, <<T, T>>),
       Plain("assign_pod", T, <<T, "PODObject">>),
       Plain("construct_pod", T, <<"PODObject">>),
       Plain("assign_sum_pod", T, <<T, "PODObject">>),
       Plain("assign_difference_pod", T, <<T, "PODObject">>),
       Plain("assign_product_pod", T, <<T, "PODObject">>),
       Plain("assign_quotient_pod", T, <<T, "PODObject">>),
       Plain("to_string", T, <<T>>),
       Plain("parse_string", T, <<"string">>) >>

\* ... and those bootstrap_integer_type<T> adds to them (lines 387-392).
IntegerTypeFns(T) ==
    [k \in DOMAIN IntegerOnlyAdds |->
        Plain(IntegerOnlyAdds[k][1], T, <<T, "PODObject">>)]

\* The function objects Bootstrap::bootstrap creates itself, in the order
\* of its statements (lines 626-714).
CoreFns ==
    << Plain("get_arity", "", <<"Function">>),
       Plain("annotation", "", <<"Function">>),
       Plain("call", "", <<"Function", "vector">>),
       Plain("function_equal", "", <<"Function", "Function">>),
       Plain("get_param_types", "", <<"Function">>),
       Plain("get_contained_functions", "", <<"Function">>),
       Constructor("constructor", "runtime_error", <<"string">>),
       Plain("what", "runtime_error", <<"runtime_error">>),
       Constructor("constructor", "Dynamic_Object", <<"string">>),
       Plain("get_type_name", "", <<"Dynamic_Object">>),
       Plain("get_attrs", "", <<"Dynamic_Object">>),
       Plain("get_attr", "", <<"Dynamic_Object", "string">>),
       Dynamic("Dynamic_Object::clone", 1, 0),
       Plain("has_guard", "", <<"Function">>),
       Plain("get_guard", "", <<"Function">>),
       Plain("is_undef", "", <<"Object">>),
       Plain("is_null", "", <<"Object">>),
       Plain("is_const", "", <<"Object">>),
       Plain("is_ref", "", <<"Object">>),
       Plain("is_pointer", "", <<"Object">>),
       Plain("is_type", "", <<"Object", "Type_Info">>),
       Plain("get_type_info", "", <<"Object">>),
       Plain("is_const", "Type_Info", <<"Type_Info">>),
       Plain("is_reference", "Type_Info", <<"Type_Info">>),
       Plain("is_void", "Type_Info", <<"Type_Info">>),
       Plain("is_undef", "Type_Info", <<"Type_Info">>),
       Plain("is_pointer", "Type_Info", <<"Type_Info">>),
       Plain("name", "Type_Info", <<"Type_Info">>),
       Plain("bare_name", "Type_Info", <<"Type_Info">>),
       Plain("bare_equal", "Type_Info", <<"Type_Info", "Type_Info">>),
       Plain("type_info_equal", "Type_Info", <<"Type_Info", "Type_Info">>),
       Constructor("constructor_default", "bool", << >>),
       Constructor("constructor_copy", "bool", <<"bool">>),
       Plain("assign", "bool", <<"bool", "bool">>),
       Plain("to_string", "string", <<"string">>),
       Plain("bool_to_string", "", <<"bool">>),
       Plain("unknown_assign", "", <<"Object", "Object">>),
       Plain("throw_exception", "", <<"Object">>),
       Plain("what", "", <<"exception">>),
       Plain("addition", "PODObject", <<"PODObject", "PODObject">>),
       Plain("subtraction", "PODObject", <<"PODObject", "PODObject">>),
       Plain("bitwise_and", "PODObject", <<"PODObject", "PODObject">>),
       Plain("bitwise_xor", "PODObject", <<"PODObject", "PODObject">>),
       Plain("bitwise_or", "PODObject", <<"PODObject", "PODObject">>),
       Plain("division", "PODObject", <<"PODObject", "PODObject">>),
       Plain("left_shift", "PODObject", <<"PODObject", "PODObject">>),
       Plain("multiplication", "PODObject", <<"PODObject", "PODObject">>),
       Plain("remainder", "PODObject", <<"PODObject", "PODObject">>),
       Plain("right_shift", "PODObject", <<"PODObject", "PODObject">>),
       Plain("print", "", <<"string">>),
       Plain("println", "", <<"string">>),
       Dynamic("bind_function", -1, 0),
       Plain("shared_ptr_unconst_clone", "", <<"Function">>),
       Plain("ptr_assign", "Function", <<"Object", "Function">>),
       Plain("ptr_assign", "const Function", <<"Object", "Function">>),
       Dynamic("call_exists", -1, 0),
       Plain("type_match", "", <<"Object", "Object">>) >>

RECURSIVE Flatten(_)
Flatten(ss) == IF ss = << >> THEN << >> ELSE Head(ss) \o Flatten(Tail(ss))

\* Every function object that exists before a script runs, by handle.
FixedFns ==
    HostFns \o CoreFns
    \o Flatten([k \in DOMAIN PODTypes |->
                   PodTypeFns(PODTypes[k])
                   \o (IF PODTypes[k] \in IntegerTypes
                       THEN IntegerTypeFns(PODTypes[k]) ELSE << >>)])

NFixed == Len(FixedFns)

\* fun(&body<T>): the handle of that function object.  objs holds every
\* function object, the fixed ones first.
fun(body, T) ==
    CHOOSE h \in DOMAIN objs : objs[h].body = body /\ objs[h].T = T

\* The function object behind a handle.
Fn(h) == objs[h]

Handles == DOMAIN objs

IsCallable(v) == v.type = "Function" /\ v.v \in Handles

\* Module::add(callable, name): appends to the overload set of name,
\* creating it if absent (specification 4.5).
add(m, h, name) ==
    IF name \in DOMAIN m
    THEN [m EXCEPT ![name] = Append(@, h)]
    ELSE m @@ (name :> <<h>>)

\* new Module()
EmptyModule == [name \in {} |-> << >>]

\* A run of m->add(fun(...), name) statements: each overload set gets, after
\* what it held, the callables added under its name, in statement order.
AddAll(m, adds) ==
    LET names == {adds[k][2] : k \in DOMAIN adds}
        Under(name) ==
            LET IsUnder(a) == a[2] = name
                sel == SelectSeq(adds, IsUnder)
            IN  [k \in DOMAIN sel |-> sel[k][1]]
    IN  [name \in DOMAIN m \cup names |->
            (IF name \in DOMAIN m THEN m[name] ELSE << >>) \o Under(name)]

\* copy_constructor<T>(type, m), lines 290-295
copy_constructor(T, type, m) == add(m, fun("constructor_copy", T), type)

\* basic_constructors<T>(type, m), lines 304-310
basic_constructors(T, type, m) ==
    copy_constructor(T, type, add(m, fun("constructor_default", T), type))

\* construct_pod<T>(type, m), lines 316-321
construct_pod(T, type, m) == add(m, fun("construct_pod", T), type)

\* operators::assign<T>(m) of operators.hpp: T = T under "=".
operators_assign(T, m) == add(m, fun("assign", T), "=")

\* oper_assign_pod as it would be if it set the overload set of "=" instead
\* of adding to it.
oper_assign_pod_replacing(T, m) ==
    [name \in DOMAIN m \cup {"="} |->
        IF name = "=" THEN <<fun("assign_pod", T)>> ELSE m[name]]

\* oper_assign_pod<T>(m), lines 348-353
oper_assign_pod(T, m) == add(m, fun("assign_pod", T), "=")

\* bootstrap_pod_type<T>(name, m), lines 359-376
bootstrap_pod_type(T, name, m) ==
    AddAll(construct_pod(T, name,
               oper_assign_pod(T,
                   operators_assign(T,
                       basic_constructors(T, name, m)))),
                   << <<fun("assign_sum_pod", T), "+=">>,
                      <<fun("assign_difference_pod", T), "-=">>,
                      <<fun("assign_product_pod", T), "*=">>,
                      <<fun("assign_quotient_pod", T), "/=">>,
                      <<fun("to_string", T), "to_string">>,
                      <<fun("parse_string", T), ParseName(name)>> >>)

\* bootstrap_integer_type<T>(name, m), lines 382-396.  The operators::
\* families of opers_integer_arithmetic are in operators.hpp.
bootstrap_integer_type(T, name, m) ==
    AddAll(bootstrap_pod_type(T, name, m),
           [k \in DOMAIN IntegerOnlyAdds |->
               <<fun(IntegerOnlyAdds[k][1], T), IntegerOnlyAdds[k][2]>>])

\* bootstrap_float_type<T>(name, m), lines 402-408
bootstrap_float_type(T, name, m) == bootstrap_pod_type(T, name, m)

\* opers_arithmetic_pod(m), lines 486-498
opers_arithmetic_pod(m) ==
    AddAll(m, << <<fun("addition", "PODObject"), "+">>,
                 <<fun("subtraction", "PODObject"), "-">>,
                 <<fun("bitwise_and", "PODObject"), "&">>,
                 <<fun("bitwise_xor", "PODObject"), "^">>,
                 <<fun("bitwise_or", "PODObject"), "|">>,
                 <<fun("division", "PODObject"), "/">>,
                 <<fun("left_shift", "PODObject"), "<<">>,
                 <<fun("multiplication", "PODObject"), "*">>,
                 <<fun("remainder", "PODObject"), "%">>,
                 <<fun("right_shift", "PODObject"), ">>">> >>)

\* Bootstrap::bootstrap(m), lines 617-717: the callables it adds.  (The
\* user_type and base_class entries are not callables; the operators::
\* comparison and arithmetic families are in operators.hpp.)
bootstrap(m) ==
    AddAll(opers_arithmetic_pod(
           bootstrap_integer_type("int64_t", "int64_t",
           bootstrap_integer_type("char", "char",
           bootstrap_integer_type("size_t", "size_t",
           bootstrap_integer_type("int", "int",
           bootstrap_float_type("double", "double",
           AddAll(operators_assign("bool", basic_constructors("bool", "bool",
           AddAll(m,
              << <<fun("get_arity", ""), "get_arity">>,
                 <<fun("annotation", ""), "get_annotation">>,
                 <<fun("call", ""), "call">>,
                 <<fun("function_equal", ""), "==">>,
                 <<fun("get_param_types", ""), "get_param_types">>,
                 <<fun("get_contained_functions", ""), "get_contained_functions">>,
                 <<fun("constructor", "runtime_error"), "runtime_error">>,
                 <<fun("what", "runtime_error"), "what">>,
                 <<fun("constructor", "Dynamic_Object"), "Dynamic_Object">>,
                 <<fun("get_type_name", ""), "get_type_name">>,
                 <<fun("get_attrs", ""), "get_attrs">>,
                 <<fun("get_attr", ""), "get_attr">>,
                 <<fun("Dynamic_Object::clone", ""), "clone">>,
                 <<fun("has_guard", ""), "has_guard">>,
                 <<fun("get_guard", ""), "get_guard">>,
                 <<fun("is_undef", ""), "is_var_undef">>,
                 <<fun("is_null", ""), "is_var_null">>,
                 <<fun("is_const", ""), "is_var_const">>,
                 <<fun("is_ref", ""), "is_var_reference">>,
                 <<fun("is_pointer", ""), "is_var_pointer">>,
                 <<fun("is_type", ""), "is_type">>,
                 <<fun("get_type_info", ""), "get_type_info">>,
                 <<fun("is_const", "Type_Info"), "is_type_const">>,
                 <<fun("is_reference", "Type_Info"), "is_type_reference">>,
                 <<fun("is_void", "Type_Info"), "is_type_void">>,
                 <<fun("is_undef", "Type_Info"), "is_type_undef">>,
                 <<fun("is_pointer", "Type_Info"), "is_type_pointer">>,
                 <<fun("name", "Type_Info"), "cpp_name">>,
                 <<fun("bare_name", "Type_Info"), "cpp_bare_name">>,
                 <<fun("bare_equal", "Type_Info"), "bare_equal">>,
                 <<fun("type_info_equal", "Type_Info"), "==">>,
                 <<fun("bare_equal", "Type_Info"), "bare_equal">> >>))),
              << <<fun("to_string", "string"), "internal_to_string">>,
                 <<fun("bool_to_string", ""), "internal_to_string">>,
                 <<fun("unknown_assign", ""), "=">>,
                 <<fun("throw_exception", ""), "throw">>,
                 <<fun("what", ""), "what">> >>))))))),
              << <<fun("print", ""), "print_string">>,
                 <<fun("println", ""), "println_string">>,
                 <<fun("bind_function", ""), "bind">>,
                 <<fun("shared_ptr_unconst_clone", ""), "clone">>,
                 <<fun("ptr_assign", "Function"), "=">>,
                 <<fun("ptr_assign", "const Function"), "=">>,
                 <<fun("call_exists", ""), "call_exists">>,
                 <<fun("type_match", ""), "type_match">> >>)

\* chaiscript::base_class<std::exception, std::runtime_error>(), line 637
BaseClasses == {<<"exception", "runtime_error">>}

\* Step 2 of dispatch: an argument fits a parameter if the types are
\* bare-equal, or both are numeric POD types, or the parameter is a
\* registered base class of the argument's type.  A Boxed_Value parameter
\* ("Object") takes any argument: unknown_assign and ptr_assign receive
\* their lhs that way and test its type themselves (lines 443-444, 465).
TypeMatch(param, atype) ==
    \/ param = "Object"
    \/ param = atype
    \/ (param \in NumericPOD \cup {"PODObject"} /\ atype \in NumericPOD)
    \/ <<param, atype>> \in BaseClasses

IsPlaceholder(v) == v.type = "Placeholder"

\* Bound: effective arity = underlying arity - bound-count when the
\* underlying arity is fixed, variadic otherwise (specification, 3).
BoundArity(f, args) ==
    IF Fn(f).arity < 0 THEN -1 ELSE Fn(f).arity - Len(args)

\* new dispatch::Bound_Function(f, args)
Bound_Function(f, args) ==
    FnRec("Bound", "", "", BoundArity(f, args), << >>, 0, f, args, <<f>>)

\* The argument list a Bound hands to its function.  The call's arguments
\* fill the placeholders `_` among the bound ones in order, and the rest
\* follow: bind(fun(new_o, x) {...}, new_o, _) at line 649 is handed to
\* for_each, which calls it with the one argument that becomes x.
RECURSIVE MergeArgs(_, _)
MergeArgs(bound, call) ==
    IF bound = << >> THEN call
    ELSE IF IsPlaceholder(Head(bound)) /\ call # << >>
         THEN <<Head(call)>> \o MergeArgs(Tail(bound), Tail(call))
         ELSE <<Head(bound)>> \o MergeArgs(Tail(bound), call)

\* The outcome of a call.  phase says where an error arose: "match" while
\* the callable was being selected, "body" inside the function.  trace
\* lists the functions whose bodies ran; created the function objects made.
Outcome(status, phase, err, what, actual, expected, val, created, trace) ==
    [status |-> status, phase |-> phase, err |-> err, what |-> what,
     actual |-> actual, expected |-> expected, val |-> val,
     created |-> created, trace |-> trace, chosen |-> 0]

Ok(val) == Outcome("ok", "", "", "", 0, 0, val, << >>, << >>)

\* throw exception::arity_error(actual, expected)
ArityError(phase, actual, expected) ==
    Outcome("error", phase, "arity_error", "", actual, expected, VoidV, << >>, << >>)

\* throw exception::bad_boxed_cast(what)
BadBoxedCast(phase, what) ==
    Outcome("error", phase, "bad_boxed_cast", what, 0, 0, VoidV, << >>, << >>)

\* throw std::runtime_error(what)
RuntimeError(what) ==
    Outcome("error", "body", "runtime_error", what, 0, 0, VoidV, << >>, << >>)

\* The errors of dispatch itself (specification, section 7).
DispatchError(err) ==
    Outcome("error", "match", err, "", 0, 0, VoidV, << >>, << >>)

\* Examine(h, args) looks at callable h with arguments args and gives
\*   m:  Proxy_Function_Base::call_match(args), the dry run of the call;
\*   mt: the functions (guards) whose bodies the dry run runs;
\*   c:  the outcome of Proxy_Function_Base::operator()(args), the call.
RECURSIVE Examine(_, _)

call_match(h, args) == Examine(h, args).m

match_trace(h, args) == Examine(h, args).mt

Call(h, args) == Examine(h, args).c

\* Boxed_Value::assign(rhs): succeeds only when the target is undefined, or
\* both are bare-equal and the target is not const (specification, 3); the
\* target then holds rhs's payload and type.
CanAssign(lhs, rhs) ==
    lhs.type = "undef" \/ (lhs.type = rhs.type /\ ~lhs.const)

assign(lhs, rhs) ==
    IF CanAssign(lhs, rhs)
    THEN Ok(rhs)
    ELSE BadBoxedCast("body", "type mismatch in assignment")

\* Boxed_Value(rhs) for rhs a boost::shared_ptr<Type>: Type is "Function"
\* (Proxy_Function_Base) or "const Function".
BoxedHandle(Type, h) ==
    [type |-> "Function", const |-> (Type = "const Function"), v |-> h]

\* ptr_assign as it would be without the test of constness.
ptr_assign_ignoring_const(Type, lhs, h) ==
    IF lhs.type = "undef" \/ lhs.type = "Function"
    THEN Ok(BoxedHandle(Type, h))
    ELSE BadBoxedCast("body", "type mismatch in pointer assignment")

\* ptr_assign<Type>(lhs, rhs), lines 440-451
ptr_assign(Type, lhs, h) ==
    IF lhs.type = "undef" \/ (~lhs.const /\ lhs.type = "Function")
    THEN LET a == assign(lhs, BoxedHandle(Type, h))
         IN  IF a.status = "ok" THEN Ok(a.val) ELSE a
    ELSE BadBoxedCast("body", "type mismatch in pointer assignment")

\* unknown_assign as it would be without the test of is_undef: whatever
\* Boxed_Value::assign accepts is assigned.
unknown_assign_without_undef_test(lhs, rhs) == assign(lhs, rhs)

\* Bootstrap::unknown_assign(lhs, rhs), lines 463-471
unknown_assign(lhs, rhs) ==
    IF lhs.type = "undef"
    THEN assign(lhs, rhs)
    ELSE BadBoxedCast("body", "boxed_value has a set type already")

\* bind_function as it would be if it bound params[0] too.
bind_function_binding_all(params) ==
    IF Len(params) < 2
    THEN ArityError("body", Len(params), 2)
    ELSE IF ~IsCallable(params[1])
    THEN BadBoxedCast("body", "Cannot perform boxed_cast")
    ELSE [Ok(FnV(Len(objs) + 1)) EXCEPT
              !.created = <<Bound_Function(params[1].v, params)>>]

\* bind_function as it would be if the cast came before the arity check.
bind_function_casting_first(params) ==
    IF params = << >> \/ ~IsCallable(params[1])
    THEN BadBoxedCast("body", "Cannot perform boxed_cast")
    ELSE IF Len(params) < 2
    THEN ArityError("body", Len(params), 2)
    ELSE [Ok(FnV(Len(objs) + 1)) EXCEPT
              !.created = <<Bound_Function(params[1].v, Tail(params))>>]

\* Bootstrap::bind_function(params), lines 505-516
bind_function(params) ==
    IF Len(params) < 2
    THEN ArityError("body", Len(params), 2)
    ELSE IF ~IsCallable(params[1])
    THEN BadBoxedCast("body", "Cannot perform boxed_cast")
    ELSE [Ok(FnV(Len(objs) + 1)) EXCEPT
              !.created = <<Bound_Function(params[1].v, Tail(params))>>]

\* call_exists as it would be if it passed params whole to call_match.
call_exists_matching_all(params) ==
    IF Len(params) < 1
    THEN ArityError("body", Len(params), 1)
    ELSE IF ~IsCallable(params[1])
    THEN BadBoxedCast("body", "Cannot perform boxed_cast")
    ELSE [Ok(BoolV(call_match(params[1].v, params))) EXCEPT
              !.trace = match_trace(params[1].v, params)]

\* call_exists as it would be if it tried the call itself.
call_exists_calling(params) ==
    IF Len(params) < 1
    THEN ArityError("body", Len(params), 1)
    ELSE IF ~IsCallable(params[1])
    THEN BadBoxedCast("body", "Cannot perform boxed_cast")
    ELSE LET c == Call(params[1].v, Tail(params))
         IN  [Ok(BoolV(c.phase # "match")) EXCEPT !.trace = c.trace]

\* Bootstrap::call_exists(params), lines 522-532
call_exists(params) ==
    IF Len(params) < 1
    THEN ArityError("body", Len(params), 1)
    ELSE IF ~IsCallable(params[1])
    THEN BadBoxedCast("body", "Cannot perform boxed_cast")
    ELSE [Ok(BoolV(call_match(params[1].v, Tail(params)))) EXCEPT
              !.trace = match_trace(params[1].v, Tail(params))]

\* has_guard as it would be if it took every Dynamic function to be guarded.
has_guard_of_any_dynamic(h) == Fn(h).kind = "Dynamic"

\* Bootstrap::has_guard(t_pf), lines 534-543
has_guard(h) ==
    IF Fn(h).kind = "Dynamic" THEN Fn(h).guard # 0 ELSE FALSE

\* Bootstrap::get_guard(t_pf), lines 545-559
get_guard(h) ==
    IF Fn(h).kind = "Dynamic"
    THEN IF Fn(h).guard # 0
         THEN Ok(FnV(Fn(h).guard))
         ELSE RuntimeError("Function does not have a guard")
    ELSE RuntimeError("Function does not have a guard")

\* The body of a function, once the call has been matched to it.
RunBody(h, args) ==
    LET b == Fn(h).body
    IN  CASE b = "bind_function" -> bind_function(args)
          [] b = "call_exists" -> call_exists(args)
          [] b = "has_guard" -> Ok(BoolV(has_guard(args[1].v)))
          [] b = "get_guard" -> get_guard(args[1].v)
          [] b = "unknown_assign" -> unknown_assign(args[1], args[2])
          [] b = "ptr_assign" -> ptr_assign(Fn(h).T, args[1], args[2].v)
          [] b = "assign" -> assign(args[1], args[2])
          [] b = "shared_ptr_unconst_clone" -> Ok(args[1])
          [] b = "is_zero" -> Ok(BoolV(args[1].v = 0))
          [] b = "add2" -> Ok(IntV(args[1].v + args[2].v))
          [] b = "script_guarded" -> Ok(args[1])
          [] b = "script_variadic" -> Ok(IntV(Len(args)))
          [] b = "constructor" -> Ok(V(Fn(h).T, 0))
          [] OTHER -> Ok(VoidV)

\* The run of h's body, with h put on the trace.
Ran(h, pre, out) == [out EXCEPT !.trace = pre \o <<h>> \o out.trace]

SignatureFits(fn, args) ==
    /\ Len(args) = fn.arity
    /\ \A i \in DOMAIN args : TypeMatch(fn.ptypes[i], args[i].type)

\* The first of the examined candidates ex that matches (0: none).
FirstMatch(ex) ==
    IF \E k \in DOMAIN ex : ex[k].m
    THEN CHOOSE k \in DOMAIN ex : ex[k].m /\ \A j \in 1..(k - 1) : ~ex[j].m
    ELSE 0

\* The guards run while the candidates are tried up to the first match.
RECURSIVE ScanTrace(_, _)
ScanTrace(ex, k) ==
    IF k > Len(ex) THEN << >>
    ELSE IF ex[k].m THEN ex[k].mt
    ELSE ex[k].mt \o ScanTrace(ex, k + 1)

Examine(h, args) ==
    LET fn == Fn(h)
    IN  CASE fn.kind \in {"Plain", "Constructor"} ->
                [m |-> SignatureFits(fn, args),
                 mt |-> << >>,
                 c |-> IF Len(args) # fn.arity
                       THEN ArityError("match", Len(args), fn.arity)
                       ELSE IF ~SignatureFits(fn, args)
                       THEN BadBoxedCast("match", "Cannot perform boxed_cast")
                       ELSE Ran(h, << >>, RunBody(h, args))]
          [] fn.kind = "Dynamic" ->
                \* The guard is called with the same arguments and must
                \* give true.
                LET arityFits == fn.arity < 0 \/ fn.arity = Len(args)
                    guarded == arityFits /\ fn.guard # 0
                    g == IF guarded THEN Examine(fn.guard, args).c ELSE Ok(VoidV)
                    passes == g.status = "ok" /\ g.val = BoolV(TRUE)
                IN  [m |-> arityFits /\ (fn.guard = 0 \/ passes),
                     mt |-> IF guarded THEN g.trace ELSE << >>,
                     c |-> IF ~arityFits
                           THEN ArityError("match", Len(args), fn.arity)
                           ELSE IF guarded /\ ~passes
                           THEN [DispatchError("guard_error") EXCEPT
                                     !.trace = g.trace]
                           ELSE Ran(h, IF guarded THEN g.trace ELSE << >>,
                                    RunBody(h, args))]
          [] fn.kind = "Bound" -> Examine(fn.f, MergeArgs(fn.args, args))
          [] fn.kind = "OverloadSet" ->
                LET ex == [k \in DOMAIN fn.contained |->
                              Examine(fn.contained[k], args)]
                    k == FirstMatch(ex)
                IN  [m |-> k # 0,
                     mt |-> ScanTrace(ex, 1),
                     c |-> IF k = 0
                           THEN [DispatchError("no_matching_overload") EXCEPT
                                     !.trace = ScanTrace(ex, 1)]
                           ELSE [ex[k].c EXCEPT !.trace =
                                     ScanTrace(ex, 1) \o ex[k].c.trace]]

\* Dispatch as it would be if the latest-registered match were called.
dispatch_latest_match(m, name, args) ==
    IF name \notin DOMAIN m
    THEN DispatchError("no_such_function")
    ELSE LET ex == [k \in DOMAIN m[name] |-> Examine(m[name][k], args)]
         IN  IF \A k \in DOMAIN ex : ~ex[k].m
             THEN DispatchError("no_matching_overload")
             ELSE LET k == CHOOSE j \in DOMAIN ex :
                               ex[j].m /\ \A i \in DOMAIN ex : i > j => ~ex[i].m
                  IN  [ex[k].c EXCEPT !.chosen = k]

\* Dispatch (specification 4.3): the first candidate of name, in
\* registration order, that matches args is called.
dispatch(m, name, args) ==
    IF name \notin DOMAIN m
    THEN DispatchError("no_such_function")
    ELSE LET ex == [k \in DOMAIN m[name] |-> Examine(m[name][k], args)]
             k == FirstMatch(ex)
         IN  IF k = 0
             THEN DispatchError("no_matching_overload")
             ELSE [ex[k].c EXCEPT !.chosen = k]

(***************************************************************************)
(* The state machine of Part 2.                                            *)
(***************************************************************************)

\* How many function objects a run may create, and how many callables a
\* host may add besides those of bootstrap.
MaxObjs == 1

MaxUserAdds == 2

\* Argument values and lists for calls of callables.
ArgVals == {IntV(0), IntV(1)}

ArgLists ==
    {<< >>} \cup {<<a>> : a \in ArgVals}
            \cup {<<a, b>> : a \in ArgVals, b \in ArgVals}

\* The values and lists bind is given to bind: a value, the placeholder.
BoundVals == {IntV(0), PlaceholderV}

BoundLists ==
    {<< >>} \cup {<<a>> : a \in BoundVals}
            \cup {<<a, b>> : a \in BoundVals, b \in BoundVals}

\* The callables that are called, bound and inspected: those of the host,
\* unknown_assign, and the ones made at run time.
Callables ==
    (DOMAIN HostFns) \cup {fun("unknown_assign", "")}
        \cup ((NFixed + 1)..Len(objs))

\* The functions bind is applied to.
BindTargets == {2, 3, 4} \cup ((NFixed + 1)..Len(objs))

\* Argument values and lists for dispatch by name.
DispatchVals == {IntV(0), IntV(1), BoolV(TRUE), UndefV}

DispatchLists ==
    {<< >>} \cup {<<a>> : a \in DispatchVals}
            \cup {<<a, b>> : a \in DispatchVals, b \in DispatchVals}

DispatchNames == {"f", "=", "bind", "has_guard", "nosuch"}

\* What a host adds: is_zero, the guarded and the variadic script function
\* under "f", and the variadic one under "=".
UserAdds == {<<1, "f">>, <<3, "f">>, <<4, "f">>, <<4, "=">>}

\* The record of the last operation.  before and nobjs are the registry and
\* the number of run-time function objects when it began.
Op(op, name, params, h, out) ==
    [op |-> op, name |-> name, params |-> params, h |-> h, out |-> out,
     nobjs |-> Len(objs), before |-> registry]

NoOp == [op |-> "", name |-> "", params |-> << >>, h |-> 0, out |-> Ok(VoidV),
         nobjs |-> 0, before |-> EmptyModule]

PartTwoFrame == UNCHANGED <<num, cells, asg, dyn>>

\* A call that makes no function object leaves the function objects and the
\* registry as they were: whatever followed it would act on the state it
\* began in.  A run is followed up to its first such call.
Settled == last.op \in {"", "bootstrap", "add"} \/ last.out.created # << >>

\* Bootstrap::bootstrap(m) on the module as it stands.
Bootstrap ==
    /\ Settled
    /\ ~pc.booted
    /\ registry' = bootstrap(registry)
    /\ pc' = [pc EXCEPT !.booted = TRUE]
    /\ last' = Op("bootstrap", "", << >>, 0, Ok(VoidV))
    /\ UNCHANGED objs
    /\ PartTwoFrame

\* m->add(callable, name) by the host.
UserAdd ==
    \E a \in UserAdds :
        /\ Settled
        /\ pc.adds < MaxUserAdds
        /\ registry' = add(registry, a[1], a[2])
        /\ pc' = [pc EXCEPT !.adds = @ + 1]
        /\ last' = Op("add", a[2], << >>, a[1], Ok(VoidV))
        /\ UNCHANGED objs
        /\ PartTwoFrame

\* An operation with outcome out: the function objects it made join objs.
Finish(op, name, params, h, out) ==
    /\ Settled
    /\ Len(objs) + Len(out.created) <= NFixed + MaxObjs
    /\ objs' = objs \o out.created
    /\ last' = Op(op, name, params, h, out)
    /\ UNCHANGED <<pc, registry>>
    /\ PartTwoFrame

\* A call by name.
DispatchCall ==
    \E name \in DispatchNames : \E args \in DispatchLists :
        Finish("dispatch", name, args, 0, dispatch(registry, name, args))

\* bind_function(params)
BindFunction ==
    /\ pc.booted
    /\ \E f \in {FnV(h) : h \in BindTargets} \cup {IntV(0)} : \E args \in BoundLists :
        \E params \in {<< >>, <<f>> \o args} :
            Finish("bind_function", "", params, 0, bind_function(params))

\* call_exists(params)
CallExists ==
    /\ pc.booted
    /\ \E f \in {FnV(h) : h \in Callables} \cup {IntV(0)} : \E args \in ArgLists :
        \E params \in {<< >>, <<f>> \o args} :
            Finish("call_exists", "", params, 0, call_exists(params))

\* has_guard(t_pf)
HasGuard ==
    /\ pc.booted
    /\ \E h \in Callables :
        Finish("has_guard", "", << >>, h, Ok(BoolV(has_guard(h))))

\* get_guard(t_pf)
GetGuard ==
    /\ pc.booted
    /\ \E h \in Callables : Finish("get_guard", "", << >>, h, get_guard(h))

\* f(args) on a callable f.
Invoke ==
    /\ pc.booted
    /\ \E h \in Callables : \E args \in ArgLists :
        Finish("call", "", args, h, Call(h, args))

RestIdleForPartTwo ==
    /\ num = NumIdle
    /\ cells = << >>
    /\ asg = << >>
    /\ dyn = << >>

\* A fresh engine: the function objects exist, the module is empty.
Init ==
    /\ pc = [booted |-> FALSE, adds |-> 0]
    /\ objs = FixedFns
    /\ registry = EmptyModule
    /\ last = NoOp
    /\ RestIdleForPartTwo

\* The registry: bootstrap, host adds and dispatch.

NextRegistry ==
    \/ Bootstrap
    \/ UserAdd
    \/ DispatchCall

SpecRegistry == Init /\ [][NextRegistry]_vars

\* The callables of a bootstrapped engine.
Next ==
    \/ Bootstrap
    \/ BindFunction
    \/ CallExists
    \/ HasGuard
    \/ GetGuard
    \/ Invoke

Spec == Init /\ [][Next]_vars

(***************************************************************************)
(* Dispatch and registration, under SpecRegistry.                          *)
(***************************************************************************)

\* The candidates the last dispatch chose among, and the positions of those
\* that match its arguments.
Candidates ==
    IF last.name \in DOMAIN last.before THEN last.before[last.name] ELSE << >>

Matching == {k \in DOMAIN Candidates : call_match(Candidates[k], last.params)}

IsPrefix(s, t) == Len(s) <= Len(t) /\ SubSeq(t, 1, Len(s)) = s

\* The callables Bootstrap::bootstrap registers under "=", in the order of
\* its statements (lines 681, 685, 689-693, 708, 709).
AssignCandidates ==
    << fun("assign", "bool"), fun("unknown_assign", ""),
       fun("assign", "double"), fun("assign_pod", "double"),
       fun("assign", "int"), fun("assign_pod", "int"),
       fun("assign", "size_t"), fun("assign_pod", "size_t"),
       fun("assign", "char"), fun("assign_pod", "char"),
       fun("assign", "int64_t"), fun("assign_pod", "int64_t"),
       fun("ptr_assign", "Function"), fun("ptr_assign", "const Function") >>

\* C4: registration is additive.  Whatever the last operation was, every
\* overload set begins with what it held before; an add puts its callable
\* after the earlier ones under its name; bootstrap puts its candidates for
\* "=" after the earlier ones, in the order of its statements.
C4_RegistrationIsAdditive ==
    /\ \A name \in DOMAIN last.before :
          /\ name \in DOMAIN registry
          /\ IsPrefix(last.before[name], registry[name])
    /\ last.op = "add" =>
          registry[last.name] = Candidates \o <<last.h>>
    /\ last.op = "bootstrap" =>
          LET old == IF "=" \in DOMAIN last.before
                     THEN last.before["="] ELSE << >>
          IN  registry["="] = old \o AssignCandidates

\* Bootstrap on a module that already holds a candidate for "=", and an add
\* under "=" after bootstrap.
C4_Witness ==
    \/ /\ last.op = "bootstrap"
       /\ "=" \in DOMAIN last.before
       /\ Len(registry["="]) > Len(AssignCandidates)
    \/ /\ last.op = "add"
       /\ last.name = "="
       /\ Len(Candidates) >= Len(AssignCandidates)

(***************************************************************************)
(* The helpers on callables, under Spec.                                   *)
(***************************************************************************)

\* The function objects made at run time.
Made == (NFixed + 1)..Len(objs)

\* C5: bind_function with fewer than 2 params raises arity_error(number of
\* params, 2) whatever params[0] is, and makes no function object; with 2
\* or more params whose first is a callable it returns a new Bound function
\* holding params[0] as its function and params[1:] as its arguments.
C5_BindFunctionArityThenBound ==
    last.op = "bind_function" =>
        IF Len(last.params) < 2
        THEN /\ last.out.status = "error"
             /\ last.out.err = "arity_error"
             /\ last.out.actual = Len(last.params)
             /\ last.out.expected = 2
             /\ last.out.created = << >>
             /\ Len(objs) = last.nobjs
        ELSE IsCallable(last.params[1]) =>
             /\ last.out.status = "ok"
             /\ Len(objs) = last.nobjs + 1
             /\ last.out.val = FnV(Len(objs))
             /\ objs[Len(objs)].kind = "Bound"
             /\ objs[Len(objs)].f = last.params[1].v
             /\ objs[Len(objs)].args =
                    [i \in 1..(Len(last.params) - 1) |-> last.params[i + 1]]

\* bind_function with the single param 0, which is no callable, after an
\* earlier bind_function made a Bound function.
C5_Witness ==
    /\ last.op = "bind_function"
    /\ last.params = <<IntV(0)>>
    /\ last.out.err = "arity_error"
    /\ Made # {}
    /\ \A h \in Made : objs[h].kind = "Bound" /\ Len(objs[h].args) = 2

\* The placeholders among the first i bound arguments.
HolesUpTo(bound, i) ==
    Cardinality({j \in 1..i : IsPlaceholder(bound[j])})

\* The bound arguments with the placeholders filled in order by the call's
\* arguments, followed by the call's arguments that filled none.
Filled(bound, call) ==
    LET used == IF HolesUpTo(bound, Len(bound)) < Len(call)
                THEN HolesUpTo(bound, Len(bound)) ELSE Len(call)
    IN  [i \in DOMAIN bound |->
            IF IsPlaceholder(bound[i]) /\ HolesUpTo(bound, i) <= Len(call)
            THEN call[HolesUpTo(bound, i)] ELSE bound[i]]
        \o SubSeq(call, used + 1, Len(call))

\* A Bound function h over a function of fixed arity k with n bound
\* arguments, 1 <= n <= k.
BoundOverFixed(h) ==
    /\ objs[h].kind = "Bound"
    /\ Fn(objs[h].f).arity >= 0
    /\ Len(objs[h].args) >= 1
    /\ Len(objs[h].args) <= Fn(objs[h].f).arity

Traced(out) == {out.trace[i] : i \in DOMAIN out.trace}

\* C7: call_exists with no params raises arity_error(0, 1); with a callable
\* f first it returns f.call_match(params[1:]) and does not run f's body,
\* make a function object or touch the registry.
C7_CallExistsIsCallMatch ==
    last.op = "call_exists" =>
        /\ registry = last.before
        /\ Len(objs) = last.nobjs
        /\ IF last.params = << >>
           THEN /\ last.out.err = "arity_error"
                /\ last.out.actual = 0
                /\ last.out.expected = 1
           ELSE IsCallable(last.params[1]) =>
                /\ last.out.status = "ok"
                /\ last.out.val =
                      BoolV(call_match(last.params[1].v, Tail(last.params)))
                /\ last.params[1].v \notin Traced(last.out)
                /\ last.out.created = << >>

\* call_exists says yes of a function whose call would run its body.
C7_Witness ==
    /\ last.op = "call_exists"
    /\ last.params # << >>
    /\ IsCallable(last.params[1])
    /\ last.out.val = BoolV(TRUE)
    /\ last.params[1].v \in Traced(Call(last.params[1].v, Tail(last.params)))

\* ArityError or TypeMismatchError (specification, 7).
ArityOrTypeMismatch(out) ==
    out.status = "error" /\ out.err \in {"arity_error", "bad_boxed_cast"}

\* C8 as stated: call_exists(f, args) is true iff f.call(args) would not
\* raise ArityError or TypeMismatchError.
C8_CallExistsIffNoArityOrTypeError ==
    (last.op = "call_exists" /\ last.params # << >>
        /\ IsCallable(last.params[1])) =>
        (last.out.val = BoolV(TRUE)
            <=> ~ArityOrTypeMismatch(Call(last.params[1].v, Tail(last.params))))

\* C8, amended: call_exists(f, args) is true iff f.call(args) would not fail
\* while the call is matched to f (arity, parameter types, guard, or no
\* candidate of an overload set); what f's body raises is not foreseen.
C8_CallExistsIffCallMatches ==
    (last.op = "call_exists" /\ last.params # << >>
        /\ IsCallable(last.params[1])) =>
        LET c == Call(last.params[1].v, Tail(last.params))
        IN  last.out.val = BoolV(TRUE)
                <=> ~(c.status = "error" /\ c.phase = "match")

\* call_exists says yes of unknown_assign with a defined target, whose call
\* raises bad_boxed_cast from its body.
C8_Witness ==
    /\ last.op = "call_exists"
    /\ last.params # << >>
    /\ IsCallable(last.params[1])
    /\ objs[last.params[1].v].body = "unknown_assign"
    /\ last.out.val = BoolV(TRUE)
    /\ LET c == Call(last.params[1].v, Tail(last.params))
       IN  c.err = "bad_boxed_cast" /\ c.phase = "body"

\* C9: has_guard(f) is true exactly for a Dynamic function with a guard;
\* get_guard(f) returns the guard then, and raises
\* runtime_error("Function does not have a guard") otherwise.
C9_GuardOnlyOfGuardedDynamic ==
    LET f == objs[last.h]
        guarded == f.kind = "Dynamic" /\ f.guard # 0
    IN  /\ last.op = "has_guard" =>
              /\ last.out.val = BoolV(guarded)
              /\ f.kind \in {"Plain", "Constructor", "Bound", "OverloadSet"}
                    => last.out.val = BoolV(FALSE)
        /\ last.op = "get_guard" =>
              IF guarded
              THEN last.out.status = "ok" /\ last.out.val = FnV(f.guard)
              ELSE /\ last.out.status = "error"
                   /\ last.out.err = "runtime_error"
                   /\ last.out.what = "Function does not have a guard"

\* has_guard says no of a Dynamic function without a guard, and then
\* get_guard raises.
C9_Witness ==
    /\ last.op = "get_guard"
    /\ objs[last.h].kind = "Dynamic"
    /\ objs[last.h].guard = 0
    /\ last.out.err = "runtime_error"
    /\ ~has_guard(last.h)

(***************************************************************************)
(* Part 3.  The assignment helpers on Boxed_Values, under SpecAssign.      *)
(***************************************************************************)

\* How many variables a script holds.
NCells == 2

\* The function objects whose handles are assigned.
AssignedFns == {1, 2}

\* What unknown_assign is given as rhs.
AssignedVals == {IntV(0), FnV(1)}

NoAsg == [op |-> "", Type |-> "", i |-> 0, h |-> 0, rhs |-> UndefV,
          before |-> << >>, out |-> Ok(VoidV)]

\* A helper that returns its lhs has assigned to the data the caller's
\* variable shares with it; one that throws has left that data alone.
Assigned(i, out) ==
    IF out.status = "ok" THEN [cells EXCEPT ![i] = out.val] ELSE cells

\* lhs = rhs dispatched to ptr_assign<Type>, for Type Proxy_Function_Base
\* and its const form (lines 708, 709).
PtrAssign ==
    \E Type \in {"Function", "const Function"} :
        \E i \in DOMAIN cells : \E h \in AssignedFns :
            LET out == ptr_assign(Type, cells[i], h)
            IN  /\ cells' = Assigned(i, out)
                /\ asg' = [op |-> "ptr_assign", Type |-> Type, i |-> i,
                           h |-> h, rhs |-> FnV(h), before |-> cells,
                           out |-> out]
                /\ UNCHANGED <<num, pc, registry, objs, last, dyn>>

\* lhs = rhs dispatched to unknown_assign (line 687).
UnknownAssign ==
    \E i \in DOMAIN cells : \E rhs \in AssignedVals :
        LET out == unknown_assign(cells[i], rhs)
        IN  /\ cells' = Assigned(i, out)
            /\ asg' = [op |-> "unknown_assign", Type |-> "", i |-> i,
                       h |-> 0, rhs |-> rhs, before |-> cells, out |-> out]
            /\ UNCHANGED <<num, pc, registry, objs, last, dyn>>

\* Variables declared and not yet assigned.
InitAssign ==
    /\ cells = [i \in 1..NCells |-> UndefV]
    /\ asg = NoAsg
    /\ dyn = << >>
    /\ num = NumIdle
    /\ pc = [booted |-> TRUE, adds |-> 0]
    /\ objs = FixedFns
    /\ registry = EmptyModule
    /\ last = NoOp

NextAssign ==
    \/ PtrAssign
    \/ UnknownAssign

SpecAssign == InitAssign /\ [][NextAssign]_vars

\* C10: ptr_assign<Type>(lhs, rhs) puts the handle rhs into lhs (lhs then
\* names the very function object rhs names) when lhs is undefined, or is
\* not const and of the handle's bare type; in every other case it raises
\* bad_boxed_cast("type mismatch in pointer assignment") and lhs keeps its
\* value and type.  No other variable changes.
C10_PtrAssignOnlyToUndefOrSameNonConst ==
    asg.op = "ptr_assign" =>
        LET lhs == asg.before[asg.i]
            allowed == lhs.type = "undef"
                       \/ (~lhs.const /\ lhs.type = "Function")
        IN  /\ \A j \in DOMAIN cells : j # asg.i => cells[j] = asg.before[j]
            /\ DOMAIN cells = DOMAIN asg.before
            /\ IF allowed
               THEN /\ asg.out.status = "ok"
                    /\ cells[asg.i].type = "Function"
                    /\ cells[asg.i].v = asg.h
                    /\ cells[asg.i].const = (asg.Type = "const Function")
                    /\ asg.out.val = cells[asg.i]
               ELSE /\ asg.out.status = "error"
                    /\ asg.out.err = "bad_boxed_cast"
                    /\ asg.out.what = "type mismatch in pointer assignment"
                    /\ cells[asg.i] = lhs

\* ptr_assign refuses a variable that holds a const Function, and the
\* variable still names the function object it named.
C10_Witness ==
    /\ asg.op = "ptr_assign"
    /\ asg.out.status = "error"
    /\ asg.before[asg.i].type = "Function"
    /\ asg.before[asg.i].const
    /\ asg.before[asg.i].v # asg.h
    /\ cells[asg.i] = asg.before[asg.i]

\* C14: unknown_assign(lhs, rhs) assigns rhs into lhs only when lhs is
\* undefined; whenever lhs already has a type, even one bare-equal to rhs
\* and not const, it raises bad_boxed_cast("boxed_value has a set type
\* already") and lhs keeps its value and type.  So no call of
\* unknown_assign changes the type of a variable that has one, and no other
\* variable changes.
C14_UnknownAssignOnlyToUndef ==
    asg.op = "unknown_assign" =>
        LET lhs == asg.before[asg.i]
        IN  /\ \A j \in DOMAIN cells : j # asg.i => cells[j] = asg.before[j]
            /\ DOMAIN cells = DOMAIN asg.before
            /\ IF lhs.type = "undef"
               THEN /\ asg.out.status = "ok"
                    /\ cells[asg.i] = asg.rhs
               ELSE /\ asg.out.status = "error"
                    /\ asg.out.err = "bad_boxed_cast"
                    /\ asg.out.what = "boxed_value has a set type already"
                    /\ cells[asg.i] = lhs
                    /\ cells[asg.i].type = lhs.type

\* unknown_assign refuses a variable that holds a Function and is not
\* const, given another Function: Boxed_Value::assign would have accepted.
C14_Witness ==
    /\ asg.op = "unknown_assign"
    /\ asg.before[asg.i].type = "Function"
    /\ ~asg.before[asg.i].const
    /\ asg.rhs.type = "Function"
    /\ asg.rhs.v # asg.before[asg.i].v
    /\ CanAssign(asg.before[asg.i], asg.rhs)
    /\ asg.out.status = "error"
    /\ cells[asg.i] = asg.before[asg.i]

(***************************************************************************)
(* Part 4.  Dynamic_Object and its clone, under SpecClone.                 *)
(*                                                                         *)
(* bootstrap.hpp registers the Dynamic_Object functions (lines 643-647)    *)
(* and defines clone as a script (line 649).  The class itself is in       *)
(* dynamic_object.hpp; what is said of it here follows sections 3 and 4.4  *)
(* of the specification.                                                   *)
(***************************************************************************)

\* How many Dynamic_Objects a run makes.
MaxDyn == 2

\* Type names given to the constructor, the attribute names scripts use (a
\* std::map is iterated in the order of its keys), and the values assigned.
TypeNames == {"Point", "Size"}

AttrNames == <<"x", "y">>

AttrVals == {BoolV(TRUE), BoolV(FALSE)}

DynV(o) == V("Dynamic_Object", o)

\* Dynamic_Object(type_name): a type name and no attributes.
Dynamic_Object(type_name) ==
    [type_name |-> type_name, attrs |-> [n \in {} |-> << >>]]

\* The data a script acts on: the Boxed_Value data blocks and the objects
\* whose attributes name them.
Heap == [cells |-> cells, dyn |-> dyn]

get_type_name(h, o) == h.dyn[o].type_name

get_attrs(h, o) == h.dyn[o].attrs

\* o.get_attr(name): the attribute is created with an undefined
\* Boxed_Value on first access.  The heap after the access.  The data block
\* made for it is known by the object and the name that made it.
get_attr(h, o, name) ==
    LET a == get_attrs(h, o)
    IN  IF name \in DOMAIN a THEN h
        ELSE [cells |-> [c \in DOMAIN h.cells \cup {<<o, name>>} |->
                            IF c = <<o, name>> THEN UndefV ELSE h.cells[c]],
              dyn |-> [h.dyn EXCEPT ![o].attrs =
                          [n \in DOMAIN a \cup {name} |->
                              IF n = name THEN <<o, name>> ELSE a[n]]]]

\* The Boxed_Value that attribute name of o holds.
AttrValue(h, o, name) == h.cells[get_attrs(h, o)[name]]

\* The statement o.get_attr(name) = rhs: "=" is dispatched on the
\* attribute and rhs, and a helper that returns its lhs has assigned to the
\* attribute's data.
Equation(h, m, o, name, rhs) ==
    LET h1 == get_attr(h, o, name)
        c == get_attrs(h1, o)[name]
        out == dispatch(m, "=", <<h1.cells[c], rhs>>)
    IN  [heap |-> IF out.status = "ok" THEN [h1 EXCEPT !.cells[c] = out.val] ELSE h1,
         out |-> out]

\* for_each(this.get_attrs(), bind(fun(new_o, x) { new_o.get_attr(x.first) =
\* x.second; }, new_o, _)) of line 649, from the k-th attribute name on: the
\* bound function is called with each pair x of the map in turn.
RECURSIVE for_each_attr(_, _, _, _, _)
for_each_attr(h, m, o, new_o, k) ==
    IF k > Len(AttrNames) THEN [heap |-> h, out |-> Ok(DynV(new_o))]
    ELSE IF AttrNames[k] \notin DOMAIN get_attrs(h, o)
    THEN for_each_attr(h, m, o, new_o, k + 1)
    ELSE LET e == Equation(h, m, new_o, AttrNames[k], AttrValue(h, o, AttrNames[k]))
         IN  IF e.out.status # "ok" THEN e
             ELSE for_each_attr(e.heap, m, o, new_o, k + 1)

\* clone as it would be if the new object took over the attributes of this
\* (the same Boxed_Values under the same names) instead of assigning each
\* value to an attribute of its own.
clone_sharing_attrs(h, m, o) ==
    [heap |-> [h EXCEPT !.dyn = Append(h.dyn,
                   [type_name |-> get_type_name(h, o), attrs |-> get_attrs(h, o)])],
     out |-> Ok(DynV(Len(h.dyn) + 1))]

\* def Dynamic_Object::clone() of line 649, on this = o.
clone(h, m, o) ==
    for_each_attr([h EXCEPT !.dyn = Append(h.dyn, Dynamic_Object(get_type_name(h, o)))],
                  m, o, Len(h.dyn) + 1, 1)

\* No attribute has been accessed: there are no data blocks.
NoCells == [c \in {} |-> UndefV]

AttrNameSet == {AttrNames[k] : k \in DOMAIN AttrNames}

\* The operation made last and the object it was made on (the object
\* assigned to, the object cloned).
DynOp(op, o) == [op |-> op, o |-> o]

\* An operation that ended with the heap and outcome e.
DynDone(op, o, e) ==
    /\ cells' = e.heap.cells
    /\ dyn' = e.heap.dyn
    /\ asg' = DynOp(op, o)
    /\ UNCHANGED <<num, pc, registry, objs, last>>

\* Dynamic_Object(type_name), the constructor of line 644: the host makes
\* the first object, every other object of a run is a clone.
ConstructDynamicObject ==
    /\ pc.booted
    /\ dyn = << >>
    /\ \E t \in TypeNames :
          DynDone("construct", 0,
                  [heap |-> [Heap EXCEPT !.dyn = Append(dyn, Dynamic_Object(t))],
                   out |-> Ok(DynV(Len(dyn) + 1))])

\* o.get_attr(name), read and not assigned to.
GetAttr ==
    /\ pc.booted
    /\ \E o \in DOMAIN dyn : \E name \in AttrNameSet :
          LET h == get_attr(Heap, o, name)
          IN  DynDone("get_attr", 0, [heap |-> h, out |-> Ok(AttrValue(h, o, name))])

\* o.get_attr(name) = rhs
SetAttr ==
    /\ pc.booted
    /\ \E o \in DOMAIN dyn : \E name \in AttrNameSet : \E rhs \in AttrVals :
          DynDone("set_attr", o, Equation(Heap, registry, o, name, rhs))

\* o.clone()
Clone ==
    /\ pc.booted
    /\ Len(dyn) < MaxDyn
    /\ \E o \in DOMAIN dyn : DynDone("clone", o, clone(Heap, registry, o))

InitClone ==
    /\ pc = [booted |-> FALSE, adds |-> 0]
    /\ objs = FixedFns
    /\ registry = EmptyModule
    /\ last = NoOp
    /\ num = NumIdle
    /\ cells = NoCells
    /\ dyn = << >>
    /\ asg = DynOp("", 0)

NextClone ==
    \/ Bootstrap
    \/ ConstructDynamicObject
    \/ GetAttr
    \/ SetAttr
    \/ Clone

SpecClone == InitClone /\ [][NextClone]_vars

\* What a script sees of object o: its attribute names and their values.
View(h, o) == [n \in DOMAIN get_attrs(h, o) |-> AttrValue(h, o, n)]

=============================================================================
